---- MODULE Spec2Model ----
(***************************************************************************)
(* Coordination layer of the multi-SUT automation tool:                    *)
(*   - the Inference Request Broker, OmniparserQueueManager                *)
(*     (src/omniparser_queue_service.py), an asyncio queue with one        *)
(*     background worker task that forwards requests to the backend;       *)
(*   - the Session Controller, SUTController (src/gui_app_multi_sut.py),   *)
(*     one worker thread per SUT driven from the GUI thread.               *)
(* The broker runs on one event loop: a coroutine runs without             *)
(* interruption between two awaits, so every broker action below is the    *)
(* code between two suspension points.  CPython >= 3.8 is assumed, where   *)
(* asyncio.CancelledError is a BaseException and is therefore not caught   *)
(* by `except Exception`.                                                  *)
(***************************************************************************)
EXTENDS Integers, Sequences, FiniteSets, TLC

\* ---------------------------------------------------------------- bounds
\* Capacity of the queue.  The program sets 100 (omniparser_queue_service.py
\* line 51); the model scales it down so that a full queue is reachable.
MAX_QUEUE_SIZE == 2
\* Number of enqueue_request calls made in one behaviour.
NumRequests == 3
\* Number of stop_worker calls made in one behaviour.
MaxStops == 1

\* Largest run_count and run_delay the GUI sets on a session.
MaxRuns == 2
MaxDelay == 1
\* Largest step count the automation engine reports in one batch.
MaxSteps == 1
\* Number of start_automation calls made on one session in one behaviour.
MaxStarts == 2

Requests == 1..NumRequests

\* The SUT controllers the GUI holds, and the ones a behaviour drives.
Sessions == {1, 2}
Driven == {1}
\* self.config_path: none, a loadable file, a file HybridConfigParser rejects.
ConfigPaths == {"", "good", "bad"}

\* What the backend call of one request can end in (lines 155-185): a 200
\* answer, requests.Timeout, a non-200 status, another RequestException.
Outcomes == {"ok", "timeout", "status", "unreachable"}

VARIABLES
    \* ---- OmniparserQueueManager
    request_queue,      \* asyncio.Queue contents: sequence of request ids
    unfinished_tasks,   \* asyncio.Queue's put/task_done counter
    worker_task,        \* "None" | "pending" | "done"      (self.worker_task)
    worker_pc,          \* where the worker coroutine is suspended
    must_cancel,        \* Task.cancel() was called, CancelledError not yet thrown
    queued_request,     \* request the worker holds (0: none)
    fwd,                \* outcome the executor delivered for it ("none": not yet)
    executor,           \* requests whose session.post is running in a pool thread
    stats,              \* self.stats
    response_future,    \* per request: state of QueuedRequest.response_future
    caller,             \* per request: where its enqueue_request call is
    ready,              \* event loop's FIFO of caller wake-ups
    stop_pc,            \* stop_worker coroutine: "idle" | "awaiting"
    \* ---- history (not program state)
    n_calls,            \* enqueue_request calls made so far
    n_stops,            \* stop_worker calls made so far
    tasks_created,      \* worker tasks created so far
    tasks_ended,        \* worker tasks that have finished so far
    dequeued,           \* requests a worker has taken from the queue
    n_fulfil,           \* per request: times the worker fulfilled its future
    resumed             \* requests in the order their callers resumed

VARIABLES
    \* ---- SUTController, one of each per session
    config_path,        \* self.config_path
    run_count,          \* self.run_count
    run_delay,          \* self.run_delay
    thread,             \* self.thread: "None" | "alive" | "dead"
    stop_event,         \* self.stop_event.is_set()
    logger,             \* self.logger is not None
    queue_handler,      \* self.queue_handler: 0 for None, else which of the
                        \* session's handler objects it is
    status,             \* self.status
    completed_steps,    \* self.completed_steps
    current_run,        \* self.current_run
    total_runs,         \* self.total_runs
    wpc,                \* where the worker thread is in _run_automation
    run_num,            \* worker local: run_num
    w_count,            \* worker local: run_count (line 260)
    w_delay,            \* worker local: run_delay (line 261)
    ticks,              \* worker local: iterations left of the delay loop
    \* ---- shared by the sessions
    root_handlers,      \* QueueHandlers on the root logger, each <<s, g>>:
                        \* the g-th handler object session s created
    \* ---- the GUI thread
    gui_pc,             \* "idle", or where it is inside stop_automation
    gui_s,              \* the session that call is on
    start_ret,          \* per session: outcome of the last start_automation
    stop_ret,           \* per session: outcome of the last stop_automation
    \* ---- history (not program state)
    n_starts,           \* per session: start_automation calls so far
    spawned,            \* per session: worker threads created so far
    \* ---- history of the batch a live worker runs, empty without one
    run_log,            \* per session: the engine calls of the batch, each
                        \* "running" or what the call ended in
    batch_n,            \* per session: run_count as the worker read it at
                        \* line 260, -1 before
    stop_at,            \* per session: whether the worker was in the delay
                        \* between two runs ("delay") or not ("run") when
                        \* the stop event was set; "none": not set
    \* ---- history of the shared logging channel
    last_emit           \* the last module-level log record of an engine call
                        \* that is still running: the session whose
                        \* collaborator emitted it, the handlers that got it

sessionVars == <<config_path, run_count, run_delay, thread, stop_event, logger,
                 queue_handler, status, completed_steps, current_run,
                 total_runs, wpc, run_num, w_count, w_delay, ticks,
                 root_handlers, gui_pc, gui_s, start_ret, stop_ret, n_starts,
                 spawned, run_log, batch_n, stop_at, last_emit>>

brokerVars == <<request_queue, unfinished_tasks, worker_task, worker_pc,
                must_cancel, queued_request, fwd, executor, stats,
                response_future, caller, ready, stop_pc, n_calls, n_stops,
                tasks_created, tasks_ended, dequeued, n_fulfil, resumed>>

vars == <<brokerVars, sessionVars>>

\* ------------------------------------------------------------ broker: init
BrokerInit ==
    /\ request_queue = <<>>
    /\ unfinished_tasks = 0
    /\ worker_task = "None"
    /\ worker_pc = "none"
    /\ must_cancel = FALSE
    /\ queued_request = 0
    /\ fwd = "none"
    /\ executor = {}
    /\ stats = [total_requests |-> 0, successful_requests |-> 0,
                failed_requests |-> 0, current_queue_size |-> 0,
                worker_running |-> FALSE]
    /\ response_future = [r \in Requests |-> "absent"]
    /\ caller = [r \in Requests |-> "idle"]
    /\ ready = <<>>
    /\ stop_pc = "idle"
    /\ n_calls = 0
    /\ n_stops = 0
    /\ tasks_created = 0
    /\ tasks_ended = 0
    /\ dequeued = {}
    /\ n_fulfil = [r \in Requests |-> 0]
    /\ resumed = <<>>

\* --------------------------------------------------------- broker: helpers
\* The HTTPException a failed forward raises (lines 166-171, 180-185).
ExcOf(outcome) ==
    CASE outcome = "timeout"     -> "exc504"
      [] outcome = "unreachable" -> "exc502"
      [] outcome = "status"      -> "excUpstream"

Failures == {"exc504", "exc502", "excUpstream"}
Fulfilled == {"result"} \cup Failures

\* worker_task.done()
TaskDone == worker_task = "done"

\* Callers suspended inside Queue.put because the queue was full.
Putters == {r \in Requests : caller[r] = "putwait"}
Min(S) == CHOOSE x \in S : \A y \in S : x <= y

\* The queue-full test of enqueue_request (lines 204-205).
QueueFullStrict(size) == size > MAX_QUEUE_SIZE
QueueFull(size) == size >= MAX_QUEUE_SIZE

\* Which item Queue.get hands out: the oldest (asyncio.Queue is a FIFO).
NextItemLast(q) == Len(q)
NextItem(q) == 1

\* The queue after item i was taken, and after a putter that was waiting for
\* space (if any) has put its item.
AfterGetDropsAll(q, i) == <<>>
AfterGet(q, i) ==
    LET rest == SubSeq(q, 1, i - 1) \o SubSeq(q, i + 1, Len(q))
    IN  IF Putters = {} THEN rest ELSE Append(rest, Min(Putters))

\* Lines 110-117 and 150-163: the worker has an item available; it takes it,
\* records the queue size and hands session.post to the thread pool, where it
\* starts running, then suspends on the executor future.  `st` is self.stats
\* and `u` the queue's unfinished-task count as the code before this point
\* left them.
TakeAndForward(st, u) ==
    LET i == NextItem(request_queue)
        r == request_queue[i]
        q == AfterGet(request_queue, i)
    IN  /\ request_queue' = q
        /\ caller' = [c \in Requests |->
                        IF Putters # {} /\ c = Min(Putters) THEN "waiting"
                        ELSE caller[c]]
        /\ stats' = [st EXCEPT !.current_queue_size = Len(q)]
        /\ unfinished_tasks' = IF Putters = {} THEN u ELSE u + 1
        /\ queued_request' = r
        /\ dequeued' = dequeued \cup {r}
        /\ executor' = executor \cup {r}
        /\ fwd' = "none"
        /\ worker_pc' = "forward"

\* Top of the `while True` loop (lines 107-110): Queue.get returns at once when
\* an item is there and suspends otherwise.
LoopTop(st, u) ==
    IF request_queue # <<>>
    THEN TakeAndForward(st, u)
    ELSE /\ worker_pc' = "get"
         /\ queued_request' = 0
         /\ fwd' = "none"
         /\ stats' = st
         /\ unfinished_tasks' = u
         /\ UNCHANGED <<request_queue, caller, dequeued, executor>>

\* Lines 119 and 124: the counter a handled request is added to.
CountedMiscounted(st, v) ==
    [st EXCEPT !.successful_requests = @ + 1]
Counted(st, v) ==
    IF v = "result"
    THEN [st EXCEPT !.successful_requests = @ + 1]
    ELSE [st EXCEPT !.failed_requests = @ + 1]

\* ------------------------------------------------------------ broker: steps
\* The test of start_worker (line 88).
MayCreateAlways == TRUE
MayCreateWorker == worker_task = "None" \/ TaskDone

\* start_worker (lines 86-90): a no-op while a worker task is alive.
StartWorker ==
    /\ IF MayCreateWorker
       THEN /\ worker_task' = "pending"
            /\ worker_pc' = "start"
            /\ must_cancel' = FALSE
            /\ tasks_created' = tasks_created + 1
       ELSE UNCHANGED <<worker_task, worker_pc, must_cancel, tasks_created>>
    /\ UNCHANGED <<request_queue, unfinished_tasks, queued_request, fwd,
                   executor, stats, response_future, caller, ready, stop_pc,
                   n_calls, n_stops, tasks_ended, dequeued, n_fulfil, resumed>>
    /\ UNCHANGED sessionVars

\* _worker, first run of the task (lines 104-110).
WorkerStart ==
    /\ worker_task = "pending" /\ worker_pc = "start" /\ ~must_cancel
    /\ LoopTop([stats EXCEPT !.worker_running = TRUE], unfinished_tasks)
    /\ UNCHANGED <<worker_task, must_cancel, response_future, ready, stop_pc,
                   n_calls, n_stops, tasks_created,
                   tasks_ended, n_fulfil, resumed>>
    /\ UNCHANGED sessionVars

\* _worker resumed from `await self.request_queue.get()` (lines 110-117).
WorkerGet ==
    /\ worker_task = "pending" /\ worker_pc = "get" /\ ~must_cancel
    /\ request_queue # <<>>
    /\ TakeAndForward(stats, unfinished_tasks)
    /\ UNCHANGED <<worker_task, must_cancel, response_future,
                   ready, stop_pc, n_calls, n_stops, tasks_created,
                   tasks_ended, n_fulfil,
                   resumed>>
    /\ UNCHANGED sessionVars

\* The pool thread running session.post for request r ends (lines 157-162):
\* with an answer, a timeout after self.timeout seconds, or a connection
\* error.  The outcome reaches the worker only if it still awaits this call.
ThreadDone(r, o) ==
    /\ r \in executor
    /\ executor' = executor \ {r}
    /\ fwd' = IF worker_pc = "forward" /\ queued_request = r THEN o ELSE fwd
    /\ UNCHANGED <<request_queue, unfinished_tasks, worker_task, worker_pc,
                   must_cancel, queued_request, stats, response_future, caller,
                   ready, stop_pc, n_calls, n_stops, tasks_created,
                   tasks_ended, dequeued,
                   n_fulfil, resumed>>
    /\ UNCHANGED sessionVars

\* Whether the handler of line 133 catches what set_exception raises at
\* line 123: InvalidStateError is an Exception.
FaultEscapes == FALSE
FaultCaught == TRUE

\* _worker resumed from the forward (lines 117-127, 133-135, 165-185).
\* Future.set_result / set_exception raise InvalidStateError on a future that
\* is no longer pending; raised at line 118 it is caught at line 121, raised
\* again by line 123 and caught at line 133, so lines 119/124 and 127 are
\* skipped and the worker sleeps.
WorkerComplete ==
    /\ worker_task = "pending" /\ worker_pc = "forward" /\ ~must_cancel
    /\ fwd # "none"
    /\ LET r == queued_request
           v == IF fwd = "ok" THEN "result" ELSE ExcOf(fwd)
       IN  IF response_future[r] = "pending"
           THEN /\ response_future' = [response_future EXCEPT ![r] = v]
                /\ n_fulfil' = [n_fulfil EXCEPT ![r] = @ + 1]
                /\ ready' = Append(ready, r)
                /\ LoopTop(Counted(stats, v), unfinished_tasks - 1)
                /\ UNCHANGED <<worker_task, tasks_ended>>
           ELSE /\ IF FaultCaught
                   THEN /\ worker_pc' = "sleep"
                        /\ UNCHANGED <<worker_task, tasks_ended>>
                   ELSE /\ worker_pc' = "exit"
                        /\ worker_task' = "done"
                        /\ tasks_ended' = tasks_ended + 1
                /\ queued_request' = 0
                /\ fwd' = "none"
                /\ UNCHANGED <<request_queue, unfinished_tasks, executor, stats,
                               response_future, caller, ready, dequeued,
                               n_fulfil>>
    /\ UNCHANGED <<must_cancel, stop_pc, n_calls, n_stops, tasks_created,
                   resumed>>
    /\ UNCHANGED sessionVars

\* _worker resumed from `await asyncio.sleep(1)` (line 135).
WorkerWake ==
    /\ worker_task = "pending" /\ worker_pc = "sleep" /\ ~must_cancel
    /\ LoopTop(stats, unfinished_tasks)
    /\ UNCHANGED <<worker_task, must_cancel, response_future,
                   ready, stop_pc, n_calls, n_stops, tasks_created,
                   tasks_ended, n_fulfil,
                   resumed>>
    /\ UNCHANGED sessionVars

\* stop_worker up to its await (lines 94-97).  Task.cancel() marks the task;
\* a pool thread that already runs session.post cannot be cancelled and
\* keeps running.
StopWorkerCall ==
    /\ stop_pc = "idle" /\ n_stops < MaxStops
    /\ n_stops' = n_stops + 1
    /\ IF worker_task = "pending"
       THEN must_cancel' = TRUE /\ stop_pc' = "awaiting"
       ELSE UNCHANGED <<must_cancel, stop_pc>>
    /\ UNCHANGED <<request_queue, unfinished_tasks, worker_task, worker_pc,
                   queued_request, fwd, executor, stats, response_future,
                   caller, ready, n_calls, tasks_created,
                   tasks_ended, dequeued, n_fulfil,
                   resumed>>
    /\ UNCHANGED sessionVars

\* What the cancelled worker leaves of the queue (lines 129-132 touch
\* nothing but the worker_running flag).
LeftEmpty(q) == <<>>
LeftInQueue(q) == q

\* The worker task runs with CancelledError thrown in at its suspension
\* point.  At line 110 or 117 the handler of lines 129-132 runs; at line 135
\* the error is raised inside an except clause and leaves _worker; a task
\* cancelled before its first run never executes line 105.
WorkerCancelled ==
    /\ worker_task = "pending" /\ must_cancel
    /\ stats' = IF worker_pc \in {"get", "forward"}
                THEN [stats EXCEPT !.worker_running = FALSE]
                ELSE stats
    /\ worker_task' = "done"
    /\ worker_pc' = "exit"
    /\ must_cancel' = FALSE
    /\ queued_request' = 0
    /\ fwd' = "none"
    /\ tasks_ended' = tasks_ended + 1
    /\ request_queue' = LeftInQueue(request_queue)
    /\ UNCHANGED <<unfinished_tasks, executor, response_future,
                   caller, ready, stop_pc, n_calls, n_stops, tasks_created,
                   dequeued, n_fulfil, resumed>>
    /\ UNCHANGED sessionVars

\* stop_worker resumed from `await self.worker_task` (lines 97-100).
StopWorkerReturn ==
    /\ stop_pc = "awaiting" /\ TaskDone
    /\ stop_pc' = "idle"
    /\ UNCHANGED <<request_queue, unfinished_tasks, worker_task, worker_pc,
                   must_cancel, queued_request, fwd, executor, stats,
                   response_future, caller, ready, n_calls, n_stops,
                   tasks_created, tasks_ended, dequeued, n_fulfil, resumed>>
    /\ UNCHANGED sessionVars

\* Whether the event loop can run a request handler: session.post runs in a
\* pool thread (run_in_executor, lines 155-163), so a forward in progress
\* does not hold the loop.
LoopHeldByForward == executor = {}
LoopFree == TRUE

\* enqueue_request up to `await queued_request.response_future`
\* (lines 200-226).  Queue.put (line 218) suspends only on a full queue;
\* the queue was built with maxsize=MAX_QUEUE_SIZE (line 74).
EnqueueRequest ==
    /\ n_calls < NumRequests
    /\ LoopFree
    /\ n_calls' = n_calls + 1
    /\ LET r == n_calls + 1
           current_size == Len(request_queue)
       IN  IF QueueFull(current_size)
           THEN /\ caller' = [caller EXCEPT ![r] = "rejected503"]
                /\ UNCHANGED <<request_queue, unfinished_tasks, stats,
                               response_future>>
           ELSE /\ response_future' = [response_future EXCEPT ![r] = "pending"]
                /\ IF Len(request_queue) >= MAX_QUEUE_SIZE
                   THEN /\ caller' = [caller EXCEPT ![r] = "putwait"]
                        /\ stats' = [stats EXCEPT !.total_requests = @ + 1]
                        /\ UNCHANGED <<request_queue, unfinished_tasks>>
                   ELSE /\ caller' = [caller EXCEPT ![r] = "waiting"]
                        /\ request_queue' = Append(request_queue, r)
                        /\ unfinished_tasks' = unfinished_tasks + 1
                        /\ stats' = [stats EXCEPT
                                       !.total_requests = @ + 1,
                                       !.current_queue_size = current_size + 1]
    /\ UNCHANGED <<worker_task, worker_pc, must_cancel, queued_request, fwd,
                   executor, ready, stop_pc, n_stops, tasks_created,
                   tasks_ended, dequeued,
                   n_fulfil, resumed>>
    /\ UNCHANGED sessionVars

\* The task awaiting enqueue_request at line 226 is cancelled by its owner
\* (a caller that gave up): cancelling it cancels the future it awaits.
CallerCancel(r) ==
    /\ caller[r] = "waiting" /\ response_future[r] = "pending"
    /\ caller' = [caller EXCEPT ![r] = "abandoned"]
    /\ response_future' = [response_future EXCEPT ![r] = "cancelled"]
    /\ UNCHANGED <<request_queue, unfinished_tasks, worker_task, worker_pc,
                   must_cancel, queued_request, fwd, executor, stats, ready,
                   stop_pc, n_calls, n_stops, tasks_created,
                   tasks_ended, dequeued, n_fulfil,
                   resumed>>
    /\ UNCHANGED sessionVars

\* enqueue_request resumed from line 226 (lines 226-230): the event loop runs
\* the wake-ups of fulfilled futures in the order they were fulfilled.
CallerResume ==
    /\ ready # <<>>
    /\ LET r == Head(ready)
       IN  /\ caller' = [caller EXCEPT ![r] =
                           IF response_future[r] = "result" THEN "returned"
                           ELSE "raised"]
           /\ resumed' = Append(resumed, r)
    /\ ready' = Tail(ready)
    /\ UNCHANGED <<request_queue, unfinished_tasks, worker_task, worker_pc,
                   must_cancel, queued_request, fwd, executor, stats,
                   response_future, stop_pc, n_calls, n_stops, tasks_created,
                   tasks_ended,
                   dequeued, n_fulfil>>
    /\ UNCHANGED sessionVars

BrokerNext ==
    \/ StartWorker
    \/ WorkerStart
    \/ WorkerGet
    \/ \E r \in Requests, o \in Outcomes : ThreadDone(r, o)
    \/ WorkerComplete
    \/ WorkerWake
    \/ StopWorkerCall
    \/ WorkerCancelled
    \/ StopWorkerReturn
    \/ EnqueueRequest
    \/ \E r \in Requests : CallerCancel(r)
    \/ CallerResume

\* ----------------------------------------------------------- session: init
\* SUTController.__init__ (lines 122-154).  The run policy is the GUI's to set
\* (lines 589-590, 996-997); it starts at the largest values of the model.
SessionInit ==
    /\ config_path = [s \in Sessions |-> ""]
    /\ run_count = [s \in Sessions |-> MaxRuns]
    /\ run_delay = [s \in Sessions |-> MaxDelay]
    /\ thread = [s \in Sessions |-> "None"]
    /\ stop_event = [s \in Sessions |-> FALSE]
    /\ logger = [s \in Sessions |-> FALSE]
    /\ queue_handler = [s \in Sessions |-> 0]
    /\ status = [s \in Sessions |-> "Idle"]
    /\ completed_steps = [s \in Sessions |-> 0]
    /\ current_run = [s \in Sessions |-> 0]
    /\ total_runs = [s \in Sessions |-> 1]
    /\ wpc = [s \in Sessions |-> "none"]
    /\ run_num = [s \in Sessions |-> 0]
    /\ w_count = [s \in Sessions |-> 0]
    /\ w_delay = [s \in Sessions |-> 0]
    /\ ticks = [s \in Sessions |-> 0]
    /\ root_handlers = {}
    /\ gui_pc = "idle"
    /\ gui_s = 0
    /\ start_ret = [s \in Sessions |-> "none"]
    /\ stop_ret = [s \in Sessions |-> "none"]
    /\ n_starts = [s \in Sessions |-> 0]
    /\ spawned = [s \in Sessions |-> 0]
    /\ run_log = [s \in Sessions |-> <<>>]
    /\ batch_n = [s \in Sessions |-> -1]
    /\ stop_at = [s \in Sessions |-> "none"]
    /\ last_emit = [by |-> 0, got |-> {}]

\* -------------------------------------------------------- session: helpers
\* self.thread and self.thread.is_alive()   (line 225)
IsAlive(s) == thread[s] = "alive"

\* The test that makes start_automation refuse (line 201).
AlreadyRunningNever(s) == FALSE
AlreadyRunning(s) == thread[s] = "alive"

\* What start_automation leaves of the stop event (line 210: clear()).
StopEventKept(s) == stop_event[s]
StopEventAtStart(s) == FALSE

\* The value start_automation gives self.total_runs (line 214).
TotalRunsStale(s) == total_runs[s]
TotalRunsAtStart(s) == run_count[s]

\* The worker of s is at position p of _run_automation.
At(s, p) == thread[s] = "alive" /\ wpc[s] = p

\* Groups of variables, for the frame conditions.
workerLocals == <<run_num, w_count, w_delay, ticks>>
guiVars == <<gui_pc, gui_s, start_ret, stop_ret, n_starts, spawned>>
policyVars == <<config_path, run_count, run_delay>>
progressVars == <<completed_steps, current_run, total_runs>>
histVars == <<run_log, batch_n, stop_at, last_emit>>

\* ---------------------------------------------------- session: GUI thread
\* The GUI binds a configuration file to the session (line 859).
\* self.config_path is read at line 205, with no live worker, and by the
\* worker at line 242: a selection made while a worker is past line 242 acts
\* as the same selection made once that worker has ended, and is taken there.
BindConfig(s, p) ==
    /\ gui_pc = "idle"
    /\ thread[s] = "alive" =>
           wpc[s] \in {"setup", "setup_root", "setup_add", "load"}
    /\ config_path[s] # p
    /\ config_path' = [config_path EXCEPT ![s] = p]
    /\ UNCHANGED <<run_count, run_delay, thread, stop_event, logger,
                   queue_handler, status, progressVars, wpc, workerLocals,
                   root_handlers, guiVars>>
    /\ UNCHANGED histVars
    /\ UNCHANGED brokerVars

\* _start_sut, lines 988-997 (and start_all, lines 1219-1220): the GUI copies
\* the run policy from its widgets, then calls start_automation.
SetRunPolicy(s, c, d) ==
    /\ gui_pc = "idle"
    /\ n_starts[s] < MaxStarts
    /\ run_count' = [run_count EXCEPT ![s] = c]
    /\ run_delay' = [run_delay EXCEPT ![s] = d]
    /\ gui_pc' = "start_call"
    /\ gui_s' = s
    /\ UNCHANGED <<config_path, thread, stop_event, logger, queue_handler,
                   status, progressVars, wpc, workerLocals, root_handlers,
                   start_ret, stop_ret, n_starts, spawned>>
    /\ UNCHANGED histVars
    /\ UNCHANGED brokerVars

\* start_automation (line 1009) up to and including self.thread.start()
\* (lines 199-220).
\* With self.logger still None (line 140; only the worker's setup_logger sets
\* it, line 164) the logging calls of lines 202 and 206 raise AttributeError
\* before anything else happens.  The two early returns end the call in this
\* step; after thread.start() the worker runs while the call returns.
StartAutomation(s) ==
    /\ gui_pc = "start_call" /\ gui_s = s
    /\ n_starts' = [n_starts EXCEPT ![s] = @ + 1]
    /\ IF AlreadyRunning(s)
       THEN /\ start_ret' = [start_ret EXCEPT ![s] =
                               IF logger[s] THEN "False" ELSE "AttributeError"]
            /\ gui_pc' = "idle" /\ gui_s' = 0
            /\ UNCHANGED <<thread, stop_event, status, progressVars, wpc,
                           spawned>>
       ELSE IF config_path[s] = ""
       THEN /\ start_ret' = [start_ret EXCEPT ![s] =
                               IF logger[s] THEN "False" ELSE "AttributeError"]
            /\ status' = IF logger[s] THEN [status EXCEPT ![s] = "Error"]
                         ELSE status
            /\ gui_pc' = "idle" /\ gui_s' = 0
            /\ UNCHANGED <<thread, stop_event, progressVars, wpc, spawned>>
       ELSE /\ stop_event' = [stop_event EXCEPT ![s] = StopEventAtStart(s)]
            /\ status' = [status EXCEPT ![s] = "Running"]
            /\ completed_steps' = [completed_steps EXCEPT ![s] = 0]
            /\ current_run' = [current_run EXCEPT ![s] = 0]
            /\ total_runs' = [total_runs EXCEPT ![s] = TotalRunsAtStart(s)]
            /\ thread' = [thread EXCEPT ![s] = "alive"]
            /\ wpc' = [wpc EXCEPT ![s] = "setup"]
            /\ spawned' = [spawned EXCEPT ![s] = @ + 1]
            /\ start_ret' = [start_ret EXCEPT ![s] = "running"]
            /\ gui_pc' = "start_return"
            /\ gui_s' = s
    /\ UNCHANGED <<policyVars, logger, queue_handler, workerLocals,
                   root_handlers, stop_ret>>
    /\ UNCHANGED histVars
    /\ UNCHANGED brokerVars

\* start_automation returns True (line 221).
StartReturn ==
    /\ gui_pc = "start_return"
    /\ start_ret' = [start_ret EXCEPT ![gui_s] = "True"]
    /\ gui_pc' = "idle"
    /\ gui_s' = 0
    /\ UNCHANGED <<policyVars, thread, stop_event, logger, queue_handler,
                   status, progressVars, wpc, workerLocals, root_handlers,
                   stop_ret, n_starts, spawned>>
    /\ UNCHANGED histVars
    /\ UNCHANGED brokerVars

\* stop_automation, the test of line 225 and, with no live worker, line 230.
StopAutomation(s) ==
    /\ gui_pc = "idle"
    /\ IF IsAlive(s)
       THEN /\ gui_pc' = "stop_log"
            /\ gui_s' = s
            /\ stop_ret' = [stop_ret EXCEPT ![s] = "running"]
       ELSE /\ stop_ret' = [stop_ret EXCEPT ![s] = "False"]
            /\ UNCHANGED <<gui_pc, gui_s>>
    /\ UNCHANGED <<policyVars, thread, stop_event, logger, queue_handler,
                   status, progressVars, wpc, workerLocals, root_handlers,
                   start_ret, n_starts, spawned>>
    /\ UNCHANGED histVars
    /\ UNCHANGED brokerVars

\* stop_automation, line 226: self.logger.info raises while logger is None.
StopLog ==
    /\ gui_pc = "stop_log"
    /\ IF logger[gui_s]
       THEN gui_pc' = "stop_set" /\ UNCHANGED <<gui_s, stop_ret>>
       ELSE /\ stop_ret' = [stop_ret EXCEPT ![gui_s] = "AttributeError"]
            /\ gui_pc' = "idle"
            /\ gui_s' = 0
    /\ UNCHANGED <<policyVars, thread, stop_event, logger, queue_handler,
                   status, progressVars, wpc, workerLocals, root_handlers,
                   start_ret, n_starts, spawned>>
    /\ UNCHANGED histVars
    /\ UNCHANGED brokerVars

\* stop_automation, line 227.
StopSet ==
    /\ gui_pc = "stop_set"
    /\ stop_event' = [stop_event EXCEPT ![gui_s] = TRUE]
    /\ gui_pc' = "stop_status"
    /\ stop_at' = [stop_at EXCEPT ![gui_s] =
                     IF thread[gui_s] = "alive" /\ ~stop_event[gui_s]
                     THEN (IF wpc[gui_s] = "delay" THEN "delay" ELSE "run")
                     ELSE @]
    /\ UNCHANGED <<policyVars, thread, logger, queue_handler, status,
                   progressVars, wpc, workerLocals, root_handlers, gui_s,
                   start_ret, stop_ret, n_starts, spawned, run_log, batch_n,
                   last_emit>>
    /\ UNCHANGED brokerVars

\* stop_automation, lines 228-229.
StopStatus ==
    /\ gui_pc = "stop_status"
    /\ status' = [status EXCEPT ![gui_s] = "Stopped"]
    /\ stop_ret' = [stop_ret EXCEPT ![gui_s] = "True"]
    /\ gui_pc' = "idle"
    /\ gui_s' = 0
    /\ UNCHANGED <<policyVars, thread, stop_event, logger, queue_handler,
                   progressVars, wpc, workerLocals, root_handlers, start_ret,
                   n_starts, spawned>>
    /\ UNCHANGED histVars
    /\ UNCHANGED brokerVars

\* -------------------------------------------------- session: worker thread
\* What one run of the automation engine ends in (lines 415, 528): run()
\* returns true, returns false, or raises.
EngineOutcomes == {"success", "failure", "exception"}

\* The worker moves to position p; with p = "done" the thread has ended.
Goto(s, p) ==
    /\ wpc' = [wpc EXCEPT ![s] = p]
    /\ UNCHANGED thread

\* setup_logger, lines 163-173: the session's own logger.
WSetupLogger(s) ==
    /\ At(s, "setup")
    /\ logger' = [logger EXCEPT ![s] = TRUE]
    /\ Goto(s, "setup_root")
    /\ UNCHANGED <<policyVars, stop_event, queue_handler, status,
                   progressVars, workerLocals, root_handlers, guiVars>>
    /\ UNCHANGED histVars
    /\ UNCHANGED brokerVars

\* The QueueHandlers setup_logger takes off the root logger (lines 177-180):
\* all of them, whichever session they belong to.
RemovedAtSetup(s, hs) == hs

\* setup_logger, lines 175-180.
WSetupRoot(s) ==
    /\ At(s, "setup_root")
    /\ root_handlers' = root_handlers \ RemovedAtSetup(s, root_handlers)
    /\ Goto(s, "setup_add")
    /\ UNCHANGED <<policyVars, stop_event, logger, queue_handler, status,
                   progressVars, workerLocals, guiVars>>
    /\ UNCHANGED histVars
    /\ UNCHANGED brokerVars

\* setup_logger, lines 182-195: a new QueueHandler on the session's queue is
\* put on the root logger and kept in self.queue_handler.
WSetupAdd(s) ==
    /\ At(s, "setup_add")
    /\ root_handlers' = root_handlers \cup {<<s, spawned[s]>>}
    /\ queue_handler' = [queue_handler EXCEPT ![s] = spawned[s]]
    /\ Goto(s, "load")
    /\ UNCHANGED <<policyVars, stop_event, logger, status, progressVars,
                   workerLocals, guiVars>>
    /\ UNCHANGED histVars
    /\ UNCHANGED brokerVars

\* HybridConfigParser raises on the file of self.config_path (lines 241-246).
LoadNeverFails(s) == FALSE
LoadFails(s) == config_path[s] # "good"

\* Lines 240-261: load the configuration, create the batch folder, read the
\* run policy.  ok = FALSE: HybridConfigParser raised (lines 246-249).
WLoadConfig(s) ==
    /\ At(s, "load")
    /\ IF ~LoadFails(s)
       THEN /\ w_count' = [w_count EXCEPT ![s] = run_count[s]]
            /\ w_delay' = [w_delay EXCEPT ![s] = run_delay[s]]
            /\ run_num' = [run_num EXCEPT ![s] = 1]
            /\ batch_n' = [batch_n EXCEPT ![s] = run_count[s]]
            /\ Goto(s, "loop")
            /\ UNCHANGED status
       ELSE /\ status' = [status EXCEPT ![s] = "Failed"]
            /\ Goto(s, "finally")
            /\ UNCHANGED <<w_count, w_delay, run_num, batch_n>>
    /\ UNCHANGED <<policyVars, stop_event, logger, queue_handler,
                   progressVars, ticks, root_handlers, guiVars, run_log,
                   stop_at, last_emit>>
    /\ UNCHANGED brokerVars

\* Lines 251-257 raise (os.makedirs): the handler of lines 308-310 runs.
WBatchDirFails(s) ==
    /\ At(s, "load")
    /\ config_path[s] = "good"
    /\ status' = [status EXCEPT ![s] = "Failed"]
    /\ Goto(s, "finally")
    /\ UNCHANGED <<policyVars, stop_event, logger, queue_handler,
                   progressVars, workerLocals, root_handlers, guiVars>>
    /\ UNCHANGED histVars
    /\ UNCHANGED brokerVars

\* Lines 263-273: head of the run loop.
WLoopHead(s) ==
    /\ At(s, "loop")
    /\ IF run_num[s] > w_count[s]
       THEN Goto(s, "final") /\ UNCHANGED <<status, current_run>>
       ELSE IF stop_event[s]
       THEN /\ status' = [status EXCEPT ![s] = "Stopped"]
            /\ Goto(s, "finally")
            /\ UNCHANGED current_run
       ELSE /\ current_run' = [current_run EXCEPT ![s] = run_num[s]]
            /\ Goto(s, "run")
            /\ UNCHANGED status
    /\ UNCHANGED <<policyVars, stop_event, logger, queue_handler,
                   completed_steps, total_runs, workerLocals, root_handlers,
                   guiVars>>
    /\ UNCHANGED histVars
    /\ UNCHANGED brokerVars

\* _run_simple_automation / _run_state_machine_automation up to the engine
\* call (lines 323-412, 447-525).  raises = TRUE: building the run's
\* collaborators raised (lines 441-443, 549-551, or 428-430, 537-539).
WRunInit(s, raises) ==
    /\ At(s, "run")
    /\ IF raises
       THEN /\ status' = [status EXCEPT ![s] = "Failed"]
            /\ Goto(s, "postrun")
            /\ UNCHANGED run_log
       ELSE IF stop_event[s]
       THEN /\ status' = [status EXCEPT ![s] = "Stopped"]
            /\ Goto(s, "postrun")
            /\ UNCHANGED run_log
       ELSE /\ Goto(s, "engine")
            /\ run_log' = [run_log EXCEPT ![s] = Append(@, "running")]
            /\ UNCHANGED status
    /\ UNCHANGED <<policyVars, stop_event, logger, queue_handler,
                   progressVars, workerLocals, root_handlers, guiVars,
                   batch_n, stop_at, last_emit>>
    /\ UNCHANGED brokerVars

\* The engine reports a finished step through progress_callback (line 411).
EngineProgress(s) ==
    /\ At(s, "engine")
    /\ completed_steps[s] < MaxSteps
    /\ completed_steps' = [completed_steps EXCEPT ![s] = @ + 1]
    /\ UNCHANGED <<policyVars, thread, stop_event, logger, queue_handler,
                   status, current_run, total_runs, wpc, workerLocals,
                   root_handlers, guiVars>>
    /\ UNCHANGED histVars
    /\ UNCHANGED brokerVars

\* The engine call ends and the run's status is set (lines 415-430, 528-539).
WEngineReturn(s, o) ==
    /\ At(s, "engine")
    /\ status' = [status EXCEPT ![s] =
                    IF o = "success" THEN "Completed"
                    ELSE IF o = "failure" /\ stop_event[s] THEN "Stopped"
                    ELSE "Failed"]
    /\ run_log' = [run_log EXCEPT ![s] = [@ EXCEPT ![Len(@)] = o]]
    /\ last_emit' = IF last_emit.by = s THEN [by |-> 0, got |-> {}]
                    ELSE last_emit
    /\ Goto(s, "postrun")
    /\ UNCHANGED <<policyVars, stop_event, logger, queue_handler,
                   progressVars, workerLocals, root_handlers, guiVars,
                   batch_n, stop_at>>
    /\ UNCHANGED brokerVars

\* Lines 281-285.
WPostRunStop(s) ==
    /\ At(s, "postrun")
    /\ IF stop_event[s]
       THEN /\ status' = [status EXCEPT ![s] = "Stopped"]
            /\ Goto(s, "finally")
       ELSE Goto(s, "postrun_failed") /\ UNCHANGED status
    /\ UNCHANGED <<policyVars, stop_event, logger, queue_handler,
                   progressVars, workerLocals, root_handlers, guiVars>>
    /\ UNCHANGED histVars
    /\ UNCHANGED brokerVars

\* The test of line 287.
RunFailedNever(s) == FALSE
RunFailed(s) == status[s] = "Failed"

\* Lines 287-294: a failed run ends the batch; otherwise the delay loop
\* starts, or with no delay due the next run does.
WPostRunFailed(s) ==
    /\ At(s, "postrun_failed")
    /\ IF RunFailed(s)
       THEN Goto(s, "finally") /\ UNCHANGED <<run_num, ticks>>
       ELSE IF run_num[s] < w_count[s] /\ w_delay[s] > 0
       THEN /\ ticks' = [ticks EXCEPT ![s] = w_delay[s]]
            /\ Goto(s, "delay")
            /\ UNCHANGED run_num
       ELSE /\ run_num' = [run_num EXCEPT ![s] = @ + 1]
            /\ Goto(s, "loop")
            /\ UNCHANGED ticks
    /\ UNCHANGED <<policyVars, stop_event, logger, queue_handler, status,
                   progressVars, w_count, w_delay, root_handlers, guiVars>>
    /\ UNCHANGED histVars
    /\ UNCHANGED brokerVars

\* The test of line 295.
StopSeenNever(s) == FALSE
StopSeenInDelay(s) == stop_event[s]

\* Lines 294-299: one iteration of the delay loop, one second long.
WDelayTick(s) ==
    /\ At(s, "delay")
    /\ IF StopSeenInDelay(s)
       THEN /\ status' = [status EXCEPT ![s] = "Stopped"]
            /\ Goto(s, "finally")
            /\ UNCHANGED <<run_num, ticks>>
       ELSE /\ ticks' = [ticks EXCEPT ![s] = @ - 1]
            /\ IF ticks[s] = 1
               THEN /\ run_num' = [run_num EXCEPT ![s] = @ + 1]
                    /\ Goto(s, "loop")
               ELSE UNCHANGED <<run_num, wpc, thread>>
            /\ UNCHANGED status
    /\ UNCHANGED <<policyVars, stop_event, logger, queue_handler,
                   progressVars, w_count, w_delay, root_handlers, guiVars>>
    /\ UNCHANGED histVars
    /\ UNCHANGED brokerVars

\* The test of line 302.
MayCompleteNever(s) == FALSE
MayComplete(s) == status[s] # "Failed" /\ status[s] # "Stopped"

\* Line 302: the test before the batch is marked completed.
WFinalTest(s) ==
    /\ At(s, "final")
    /\ IF MayComplete(s)
       THEN Goto(s, "final_set")
       ELSE Goto(s, "finally")
    /\ UNCHANGED <<policyVars, stop_event, logger, queue_handler, status,
                   progressVars, workerLocals, root_handlers, guiVars>>
    /\ UNCHANGED histVars
    /\ UNCHANGED brokerVars

\* Line 303.
WFinalSet(s) ==
    /\ At(s, "final_set")
    /\ status' = [status EXCEPT ![s] = "Completed"]
    /\ Goto(s, "finally")
    /\ UNCHANGED <<policyVars, stop_event, logger, queue_handler,
                   progressVars, workerLocals, root_handlers, guiVars>>
    /\ UNCHANGED histVars
    /\ UNCHANGED brokerVars

\* The handlers the finally block takes off the root logger (lines 314-317):
\* the one in self.queue_handler, if there is one.
RemovedNothing(s) == {}
RemovedAtExit(s) ==
    IF queue_handler[s] # 0 THEN {<<s, queue_handler[s]>>} ELSE {}

\* Lines 312-319: the session's handler is taken off the root logger and the
\* thread ends.
WFinally(s) ==
    /\ At(s, "finally")
    /\ root_handlers' = root_handlers \ RemovedAtExit(s)
    /\ thread' = [thread EXCEPT ![s] = "dead"]
    /\ wpc' = [wpc EXCEPT ![s] = "done"]
    /\ run_num' = [run_num EXCEPT ![s] = 0]
    /\ w_count' = [w_count EXCEPT ![s] = 0]
    /\ w_delay' = [w_delay EXCEPT ![s] = 0]
    /\ ticks' = [ticks EXCEPT ![s] = 0]
    /\ run_log' = [run_log EXCEPT ![s] = <<>>]
    /\ batch_n' = [batch_n EXCEPT ![s] = -1]
    /\ stop_at' = [stop_at EXCEPT ![s] = "none"]
    /\ UNCHANGED <<policyVars, stop_event, logger, queue_handler, status,
                   progressVars, guiVars, last_emit>>
    /\ UNCHANGED brokerVars

\* A collaborator of the run (NetworkManager, SimpleAutomation, ...) logs on
\* its module-level logger: the record propagates to the root logger, which
\* hands it to every handler it holds at that moment (QueueHandler.emit,
\* lines 27-28, puts it on the queue of the session that made the handler).
EmitModuleLog(s) ==
    /\ At(s, "engine")
    /\ last_emit' = [by |-> s, got |-> root_handlers]
    /\ last_emit' # last_emit
    /\ UNCHANGED <<policyVars, thread, stop_event, logger, queue_handler,
                   status, progressVars, wpc, workerLocals, root_handlers,
                   guiVars, run_log, batch_n, stop_at>>
    /\ UNCHANGED brokerVars

SessionStep(s) ==
    \/ \E p \in ConfigPaths : BindConfig(s, p)
    \/ \E c \in 0..MaxRuns, d \in 0..MaxDelay : SetRunPolicy(s, c, d)
    \/ StartAutomation(s)
    \/ StopAutomation(s)
    \/ WSetupLogger(s)
    \/ WSetupRoot(s)
    \/ WSetupAdd(s)
    \/ WLoadConfig(s)
    \/ WBatchDirFails(s)
    \/ WLoopHead(s)
    \/ \E raises \in BOOLEAN : WRunInit(s, raises)
    \/ EngineProgress(s)
    \/ \E o \in EngineOutcomes : WEngineReturn(s, o)
    \/ WPostRunStop(s)
    \/ WPostRunFailed(s)
    \/ WDelayTick(s)
    \/ WFinalTest(s)
    \/ WFinalSet(s)
    \/ WFinally(s)

GuiStep ==
    \/ StartReturn
    \/ StopLog
    \/ StopSet
    \/ StopStatus

SessionNext ==
    \/ \E s \in Driven : SessionStep(s)
    \/ GuiStep

Init == BrokerInit /\ SessionInit

\* The broker alone, and one session controller alone.
SpecBroker == Init /\ [][BrokerNext]_vars
SpecSession == Init /\ [][SessionNext]_vars

\* Two session controllers side by side on the shared root logger.  Each runs
\* batches of one run with a loadable configuration and no delay; the runs
\* succeed or fail, are stopped or not, and a session is started again after
\* its batch has ended.  MaxStarts + 1 start calls and one stop call are made
\* in all.
StartsLeft ==
    n_starts[1] + n_starts[2] <= MaxStarts
StopsLeft ==
    \A t \in Sessions : stop_ret[t] = "none"

LogStep(s) ==
    \/ BindConfig(s, "good")
    \/ StartsLeft /\ SetRunPolicy(s, 1, 0)
    \/ StartAutomation(s)
    \/ StopsLeft /\ StopAutomation(s)
    \/ WSetupLogger(s)
    \/ WSetupRoot(s)
    \/ WSetupAdd(s)
    \/ WLoadConfig(s)
    \/ WLoopHead(s)
    \/ WRunInit(s, FALSE)
    \/ EmitModuleLog(s)
    \/ \E o \in {"success", "failure"} : WEngineReturn(s, o)
    \/ WPostRunStop(s)
    \/ WPostRunFailed(s)
    \/ WFinalTest(s)
    \/ WFinalSet(s)
    \/ WFinally(s)

LogNext ==
    \/ \E s \in Sessions : LogStep(s)
    \/ GuiStep

Next ==
    \/ BrokerNext
    \/ SessionNext
    \/ LogNext
Spec == Init /\ [][Next]_vars

SpecLogging == Init /\ [][LogNext]_vars

\* ------------------------------------------------------------ broker: claims
\* Requests that were accepted (their QueuedRequest was built, line 210).
Accepted == {r \in Requests : response_future[r] # "absent"}

\* The WorkerComplete step: the worker consumes the outcome of its forward.
HandlesOutcome == fwd # "none" /\ fwd' = "none" /\ worker_task' = "pending"

\* C1: in every reachable state at most one queued request is being
\* forwarded to the backend (at most one session.post is running), whatever
\* enqueue_request, start_worker and stop_worker calls came before.
C1_AtMostOneInFlight == Cardinality(executor) <= 1

\* C2: callers resume in the order their requests were enqueued: of two
\* requests whose handles were fulfilled, the one enqueued first was fulfilled
\* first and its caller resumed first (request ids count enqueue order).
C2_FifoCompletion ==
    LET order == resumed \o ready
    IN  \A i, j \in DOMAIN order : i < j => order[i] < order[j]

C2_Witness ==
    /\ Len(resumed) >= 3
    /\ \E r \in Requests : caller[r] = "raised"
    /\ \E r \in Requests : caller[r] = "returned"

\* C3: the handle of every request the worker dequeued is fulfilled exactly
\* once, with a result or a failure: never twice, and once the worker no
\* longer handles the request its handle is fulfilled (a handle its own caller
\* cancelled is left aside).
C3_FulfilledExactlyOnce ==
    \A r \in dequeued :
        /\ n_fulfil[r] <= 1
        /\ (n_fulfil[r] = 1) <=> (response_future[r] \in Fulfilled)
        /\ \/ r = queued_request
           \/ response_future[r] \in Fulfilled
           \/ response_future[r] = "cancelled"

\* C4: an enqueue_request call made at depth >= MAX_QUEUE_SIZE is rejected
\* with 503 in the same step and changes neither the queue nor any counter;
\* one made below capacity appends at once and never waits for space.
C4_QueueFullRejects ==
    [][ n_calls' = n_calls + 1 =>
          LET r == n_calls + 1
          IN  IF Len(request_queue) >= MAX_QUEUE_SIZE
              THEN /\ caller'[r] = "rejected503"
                   /\ UNCHANGED <<request_queue, unfinished_tasks, stats,
                                  response_future>>
              ELSE /\ caller'[r] = "waiting"
                   /\ request_queue' = Append(request_queue, r)
                   /\ stats'.total_requests = stats.total_requests + 1
      ]_vars

C4_Witness ==
    /\ \E r \in Requests : caller[r] = "rejected503"
    /\ Len(request_queue) = MAX_QUEUE_SIZE
    /\ stats.total_requests = MAX_QUEUE_SIZE

\* C5 as stated: the number of accepted requests that have not completed
\* never exceeds MAX_QUEUE_SIZE.
C5_AcceptedUncompletedBounded ==
    Cardinality({r \in Requests : response_future[r] = "pending"})
        <= MAX_QUEUE_SIZE

\* C5 amended: the accepted requests that no worker has dequeued yet are the
\* ones in the queue and never number more than MAX_QUEUE_SIZE; a dequeued
\* request does not count.
C5_WaitingBounded ==
    /\ Cardinality(Accepted \ dequeued) <= MAX_QUEUE_SIZE
    /\ Accepted \ dequeued = {request_queue[i] : i \in DOMAIN request_queue}

C5_Witness ==
    /\ Len(request_queue) = MAX_QUEUE_SIZE
    /\ queued_request # 0 /\ response_future[queued_request] = "pending"
    /\ \A r \in Requests : caller[r] = "waiting"

\* C6: when the worker handles a failed forward of a request whose caller
\* awaits it, that handle alone receives the failure, failed_requests grows
\* by one, no other handle or counter of outcomes changes, and the worker
\* stays alive and takes the next queued request.
C6_FailureIsolated ==
    [][ (HandlesOutcome /\ fwd # "ok"
           /\ response_future[queued_request] = "pending") =>
          LET r == queued_request
          IN  /\ response_future' =
                    [response_future EXCEPT ![r] = ExcOf(fwd)]
              /\ ready' = Append(ready, r)
              /\ stats'.failed_requests = stats.failed_requests + 1
              /\ stats'.successful_requests = stats.successful_requests
              /\ stats'.total_requests = stats.total_requests
              /\ worker_pc' \in {"get", "forward"}
              /\ request_queue # <<>> =>
                    /\ worker_pc' = "forward"
                    /\ queued_request' = Head(request_queue)
                    /\ queued_request' \in executor'
      ]_vars

C6_Witness ==
    \E r \in Requests :
        /\ caller[r] = "raised" /\ response_future[r] \in Failures
        /\ worker_pc = "forward" /\ queued_request > r
        /\ \A q \in Requests \ {r} : response_future[q] \notin Failures

\* ----------------------------------------------------------- session: claims
\* A step in which start_automation is called on session s.
StartCalled(s) == n_starts'[s] = n_starts[s] + 1

\* The worker thread of s exists and has not ended.
WorkerActive(s) == thread[s] = "alive"

\* Nothing of the batch of s is touched: no thread is created, the worker
\* stays where it is, the stop event and the progress counters keep their
\* values.
BatchUntouched(s) ==
    /\ spawned'[s] = spawned[s]
    /\ thread'[s] = thread[s]
    /\ wpc'[s] = wpc[s]
    /\ stop_event'[s] = stop_event[s]
    /\ completed_steps'[s] = completed_steps[s]
    /\ current_run'[s] = current_run[s]
    /\ total_runs'[s] = total_runs[s]

\* C7: start_automation on a session with no configuration path (a fresh
\* session included) returns false, sets status Error, spawns no worker and
\* leaves the stop event and the progress counters alone.
C7_NoConfigFailsFast ==
    [][ \A s \in Sessions :
          (StartCalled(s) /\ ~WorkerActive(s) /\ config_path[s] = "") =>
              /\ start_ret'[s] = "False"
              /\ status'[s] = "Error"
              /\ BatchUntouched(s)
      ]_vars

C9_RunningAtReturn ==
    [][ (gui_pc = "start_return" /\ gui_pc' = "idle") =>
          /\ start_ret'[gui_s] = "True"
          /\ status'[gui_s] = "Running"
          /\ completed_steps'[gui_s] = 0
          /\ current_run'[gui_s] = 0
          /\ total_runs'[gui_s] = run_count[gui_s]
      ]_vars

\* C9 amended: a start_automation call with a configuration bound and no
\* live worker leaves, at the moment it has started the thread, status
\* Running, completed_steps 0, current_run 0, total_runs = run_count and
\* exactly one more worker, which has not run yet; the call then returns true
\* wherever the worker has got to, spawning nothing more.
C9_StartSpawns ==
    [][ /\ \A s \in Sessions :
             (StartCalled(s) /\ ~WorkerActive(s) /\ config_path[s] # "") =>
                 /\ status'[s] = "Running"
                 /\ completed_steps'[s] = 0
                 /\ current_run'[s] = 0
                 /\ total_runs'[s] = run_count[s]
                 /\ spawned'[s] = spawned[s] + 1
                 /\ thread'[s] = "alive" /\ wpc'[s] = "setup"
                 /\ stop_event'[s] = FALSE
                 /\ gui_pc' = "start_return" /\ gui_s' = s
        /\ gui_pc = "start_return" =>
                 /\ gui_pc' \in {"start_return", "idle"}
                 /\ gui_pc' = "idle" => start_ret'[gui_s] = "True"
                 /\ spawned' = spawned
      ]_vars

C9_Witness ==
    \E s \in Sessions :
        /\ start_ret[s] = "True" /\ spawned[s] = 2
        /\ status[s] = "Running" /\ WorkerActive(s)
        /\ total_runs[s] = 1 /\ run_count[s] = 1 /\ current_run[s] = 0

\* C10: stop_automation with a live worker sets the stop event, sets status
\* Stopped and returns true, also when called again while the worker winds
\* down; with no live worker it returns false and changes neither.
C10_StopContract ==
    [][ /\ (gui_pc \in {"stop_log", "stop_set", "stop_status"}
               /\ gui_pc' = "idle") =>
              /\ stop_ret'[gui_s] = "True"
              /\ stop_event'[gui_s]
              /\ status'[gui_s] = "Stopped"
        /\ \A s \in Sessions :
              (gui_pc = "idle" /\ stop_ret'[s] # stop_ret[s]
                    /\ ~WorkerActive(s)) =>
                  /\ stop_ret'[s] = "False"
                  /\ status' = status
                  /\ stop_event' = stop_event
      ]_vars

\* No stop_automation call has been made on s since its batch started: the
\* stop event is down and no such call is under way.
NoStop(s) ==
    /\ ~stop_event[s]
    /\ ~(gui_s = s /\ gui_pc \in {"stop_log", "stop_set", "stop_status"})

\* The worker thread of s ends in this step.
Terminates(s) == thread[s] = "alive" /\ thread'[s] = "dead"

\* The handlers of session s on the root logger.
SinksOf(s, hs) == {h \in hs : h[1] = s}

\* C11: if run k of a batch ends in a failure (the engine returns false or
\* raises) and no stop was requested, then from there to the end of the
\* worker the status is Failed, current_run stays k and the engine is not
\* called again: the k-th engine call is the batch's last.
C11_FailureEndsBatch ==
    [][ \A s \in Sessions : \A k \in 1..Len(run_log[s]) :
          (run_log[s][k] \in {"failure", "exception"} /\ NoStop(s)) =>
              /\ k = Len(run_log[s]) /\ current_run[s] = k
              /\ wpc[s] \in {"postrun", "postrun_failed", "finally"}
              /\ status[s] = "Failed" /\ status'[s] = "Failed"
              /\ current_run'[s] = k
              /\ \/ Terminates(s)
                 \/ /\ run_log'[s] = run_log[s]
                    /\ wpc'[s] \in {"postrun", "postrun_failed", "finally"}
      ]_vars

C11_Witness ==
    \E s \in Sessions :
        /\ At(s, "finally") /\ NoStop(s)
        /\ run_log[s] = <<"failure">> /\ batch_n[s] = 2
        /\ status[s] = "Failed" /\ current_run[s] = 1

\* C12: if the stop event is set while the worker is in the delay between
\* two runs, the worker leaves the delay at its next test of the event,
\* without sleeping another second, and ends the batch with status Stopped;
\* current_run does not change and the engine is not called again.
C12_StopInDelay ==
    [][ \A s \in Sessions :
          stop_at[s] = "delay" =>
              /\ WorkerActive(s) /\ wpc[s] \in {"delay", "finally"}
              /\ wpc[s] = "finally" => status[s] = "Stopped"
              /\ current_run'[s] = current_run[s]
              /\ \/ Terminates(s) /\ status'[s] = "Stopped"
                 \/ /\ wpc'[s] \in {"delay", "finally"}
                    /\ ticks'[s] = ticks[s]
                    /\ run_log'[s] = run_log[s]
      ]_vars

C12_Witness ==
    \E s \in Sessions :
        /\ stop_at[s] = "delay" /\ At(s, "finally")
        /\ status[s] = "Stopped" /\ stop_ret[s] = "True"
        /\ current_run[s] = 1 /\ batch_n[s] = 2 /\ ticks[s] = 1

\* The statuses that end a batch.
Terminal == {"Completed", "Failed", "Stopped", "Error"}

\* C13: once the status of a session is terminal, nothing of that batch goes
\* on: until start_automation is called again the status keeps its value, no
\* run starts (current_run is unchanged), no step is reported and the engine
\* is not called; so status is never Completed with runs left to execute.
\* (Stated for batches on which stop_automation is not called.)
C13_TerminalIsFinal ==
    [][ \A s \in Sessions :
          (status[s] \in Terminal /\ ~StartCalled(s) /\ NoStop(s)) =>
              /\ status'[s] = status[s]
              /\ current_run'[s] = current_run[s]
              /\ completed_steps'[s] = completed_steps[s]
              /\ Len(run_log'[s]) <= Len(run_log[s])
      ]_vars

\* Every run of the batch of s has ended in success: the worker read
\* run_count = N at line 260 and the engine was called N times, each call
\* returning true.
AllRunsSucceeded(s) ==
    /\ batch_n[s] >= 0
    /\ Len(run_log[s]) = batch_n[s]
    /\ \A k \in 1..Len(run_log[s]) : run_log[s][k] = "success"

\* C14: if all N runs of a batch ended in success and stop_automation was
\* not called, the worker ends with status Completed and current_run = N
\* (N = 0: no run, Completed at once, current_run 0).
C14_AllSuccessCompletes ==
    [][ \A s \in Sessions :
          (Terminates(s) /\ AllRunsSucceeded(s) /\ NoStop(s)) =>
              /\ status'[s] = "Completed"
              /\ current_run'[s] = batch_n[s]
      ]_vars

C14_Witness ==
    \E s \in Sessions :
        /\ At(s, "finally") /\ NoStop(s)
        /\ run_log[s] = <<"success", "success">> /\ batch_n[s] = 2
        /\ status[s] = "Completed" /\ current_run[s] = 2

\* The worker of s is leaving, or has left, a batch whose configuration did
\* not load: it never read the run policy (line 260) and its controller
\* holds a path HybridConfigParser rejects.
LoadFailed(s) ==
    /\ At(s, "finally")
    /\ batch_n[s] = -1
    /\ config_path[s] = "bad"

\* C15 as stated: a batch whose configuration fails to load ends with status
\* Failed, current_run 0, no engine call, and its handler off the root
\* logger.
C15_LoadFailureFailed ==
    [][ \A s \in Sessions :
          (LoadFailed(s) /\ Terminates(s)) =>
              /\ status'[s] = "Failed"
              /\ current_run'[s] = 0 /\ run_log[s] = <<>>
              /\ SinksOf(s, root_handlers') = {}
      ]_vars

\* C15 amended: when loading the configuration fails the worker sets status
\* Failed at once and goes to its exit; it ends with current_run 0, no engine
\* call and its handler off the root logger, and with status Failed unless a
\* stop_automation call made before the thread ended has set Stopped.
C15_LoadFailureEndsBatch ==
    [][ \A s \in Sessions :
          /\ (At(s, "load") /\ config_path[s] = "bad"
                 /\ wpc'[s] # wpc[s]) =>
                 /\ wpc'[s] = "finally" /\ status'[s] = "Failed"
                 /\ batch_n'[s] = -1
          /\ LoadFailed(s) =>
                 /\ current_run[s] = 0 /\ run_log[s] = <<>>
                 /\ status[s] \in {"Failed", "Stopped"}
                 /\ status[s] = "Stopped" => stop_event[s]
                 /\ Terminates(s) =>
                        /\ status'[s] = status[s]
                        /\ current_run'[s] = 0
                        /\ SinksOf(s, root_handlers') = {}
      ]_vars

C15_Witness ==
    \E s \in Sessions :
        /\ thread[s] = "dead" /\ spawned[s] = 1 /\ config_path[s] = "bad"
        /\ status[s] = "Failed" /\ current_run[s] = 0
        /\ queue_handler[s] = 1 /\ root_handlers = {}
        /\ stop_ret[s] = "none"

\* C16: with two sessions running, a module-level record a collaborator
\* emits during the run of session A reaches the queue of A once (exactly one
\* handler of A is on the root logger) and the queue of no other session.
C16_OwnSinkOnly ==
    last_emit.by # 0 =>
        /\ Cardinality(SinksOf(last_emit.by, last_emit.got)) = 1
        /\ last_emit.got = SinksOf(last_emit.by, last_emit.got)

\* C17: a handler leaves the root logger only in a step of the worker of the
\* session it belongs to (its setup_logger or its finally block): no step of
\* session B takes off the handler of session A.
C17_RemovesOwnSinkOnly ==
    [][ \A h \in root_handlers \ root_handlers' :
          wpc'[h[1]] # wpc[h[1]]
      ]_vars

\* C18: whatever start_automation and stop_automation calls were made, the
\* root logger holds at most one handler per session, the one in that
\* session's self.queue_handler, and none of a session that has no live
\* worker (its batch has not started, or has ended in any way).
C18_OneSinkWhileRunning ==
    \A s \in Sessions :
        /\ Cardinality(SinksOf(s, root_handlers)) <= 1
        /\ SinksOf(s, root_handlers) \subseteq {<<s, queue_handler[s]>>}
        /\ ~WorkerActive(s) => SinksOf(s, root_handlers) = {}

C18_Witness ==
    /\ WorkerActive(1) /\ spawned[1] = 2 /\ root_handlers = {<<1, 2>>}
    /\ thread[2] = "dead" /\ queue_handler[2] = 1
    /\ \E s \in Sessions : stop_ret[s] = "True"

\* C19: if stop_automation has returned true for the batch of a worker, that
\* worker ends with status Stopped.
C19_StoppedWins ==
    [][ \A s \in Sessions :
          (Terminates(s) /\ stop_event[s] /\ stop_ret[s] = "True") =>
              status'[s] = "Stopped"
      ]_vars

\* C20: start_automation on a session whose worker has ended with status
\* Completed, Failed or Stopped (a configuration being bound) starts a new
\* worker, sets status Running, lowers the stop event and returns true; the
\* stop event is lowered by start_automation alone, with no worker alive,
\* and is raised again only by line 227 of a later stop_automation call.
C20_RestartAfterEnd ==
    [][ \A s \in Sessions :
          /\ (StartCalled(s) /\ thread[s] = "dead" /\ config_path[s] # ""
                 /\ status[s] \in {"Completed", "Failed", "Stopped"}) =>
                 /\ status'[s] = "Running"
                 /\ ~stop_event'[s]
                 /\ thread'[s] = "alive" /\ wpc'[s] = "setup"
                 /\ spawned'[s] = spawned[s] + 1
                 /\ gui_pc' = "start_return" /\ gui_s' = s
          /\ (gui_pc = "start_return" /\ gui_s = s /\ gui_pc' # gui_pc) =>
                 start_ret'[s] = "True"
          /\ (stop_event[s] /\ ~stop_event'[s]) =>
                 StartCalled(s) /\ ~WorkerActive(s)
          /\ (~stop_event[s] /\ stop_event'[s]) =>
                 gui_pc = "stop_set" /\ gui_s = s
      ]_vars

C20_Witness ==
    \E s \in Sessions :
        /\ spawned[s] = 2 /\ start_ret[s] = "True" /\ stop_ret[s] = "True"
        /\ ~stop_event[s] /\ At(s, "engine") /\ status[s] = "Running"

\* ------------------------------------------------- broker: worker life cycle
\* Worker tasks that were created and have not finished.
LiveTasks == tasks_created - tasks_ended

\* C21: start_worker is idempotent: a call made while a worker task is alive
\* creates no task, and whatever start_worker and stop_worker calls were
\* made, at most one worker task is alive and consuming the queue.
C21_StartIdempotent ==
    [][/\ tasks_created' # tasks_created =>
            /\ worker_task # "pending"
            /\ tasks_created' = tasks_created + 1
       /\ LiveTasks' <= 1
       /\ (worker_task' = "pending") <=> (LiveTasks' = 1)]_vars

\* A worker was stopped and start_worker created the next one, which serves.
C21_Witness ==
    /\ tasks_created = 2 /\ tasks_ended = 1
    /\ worker_task = "pending" /\ worker_pc = "forward"

\* A step of a stop_worker call: the call itself (lines 94-95), any step
\* taken while the task it cancelled has not ended yet, and its return
\* (lines 97-100).
DuringStop ==
    \/ n_stops' # n_stops
    \/ must_cancel
    \/ stop_pc = "awaiting" /\ stop_pc' = "idle"

\* C22: stop_worker does not drain the queue: over a stop, from its call to
\* its return, the requests that wait in the queue stay there in their order
\* with their handles unfulfilled, and the succeeded and failed counters do
\* not change.
C22_StopLeavesQueue ==
    [][DuringStop =>
         /\ Len(request_queue') >= Len(request_queue)
         /\ SubSeq(request_queue', 1, Len(request_queue)) = request_queue
         /\ \A i \in 1..Len(request_queue) :
                response_future'[request_queue[i]] \notin Fulfilled
         /\ n_fulfil' = n_fulfil
         /\ stats'.successful_requests = stats.successful_requests
         /\ stats'.failed_requests = stats.failed_requests]_vars

\* stop_worker has cancelled a serving worker and returned while two requests
\* wait in the queue.
C22_Witness ==
    /\ n_stops = 1 /\ stop_pc = "idle" /\ TaskDone /\ dequeued # {}
    /\ Len(request_queue) = 2
    /\ \A i \in 1..Len(request_queue) :
           response_future[request_queue[i]] = "pending"

\* ------------------------------------------------ session: order of the runs
\* C23: within one session the runs of a batch execute in order and never
\* overlap: current_run only goes from k to k + 1 or is reset to 0 by
\* start_automation, 0 <= current_run <= total_runs holds throughout a batch,
\* and a worker thread is created only when the session has none alive.
C23_RunsInOrder ==
    [][\A s \in Sessions :
         /\ current_run'[s] # current_run[s] =>
                \/ current_run'[s] = current_run[s] + 1
                \/ current_run'[s] = 0 /\ StartCalled(s)
         /\ thread'[s] = "alive" =>
                current_run'[s] >= 0 /\ current_run'[s] <= total_runs'[s]
         /\ spawned'[s] # spawned[s] => thread[s] # "alive"]_vars

\* ------------------------------------------------------- broker: progress
\* What the event loop and the thread pool guarantee: a coroutine that can
\* run is run (the worker, a stop_worker whose task has ended, a caller whose
\* future was fulfilled), asyncio.sleep(1) ends, and every session.post
\* returns or times out after self.timeout seconds (line 161).
BrokerFairness ==
    /\ WF_vars(WorkerStart)
    /\ WF_vars(WorkerGet)
    /\ WF_vars(WorkerComplete)
    /\ WF_vars(WorkerWake)
    /\ WF_vars(WorkerCancelled)
    /\ WF_vars(StopWorkerReturn)
    /\ WF_vars(CallerResume)
    /\ \A r \in Requests : WF_vars(\E o \in Outcomes : ThreadDone(r, o))

\* The broker with start_worker, stop_worker and enqueue_request called at
\* any time, under those guarantees.
SpecBrokerFair == Init /\ [][BrokerNext]_vars /\ BrokerFairness

\* The caller of request r is no longer suspended at line 226: it resumed
\* with the result or the failure, or gave up itself.
CallerDone(r) == caller[r] \in {"returned", "raised", "abandoned"}

\* C24: a stop_worker call made while a request is in flight does not affect
\* that request: its forward finishes or times out, its handle is then
\* fulfilled and its caller eventually resumes.
C24_InFlightSurvivesStop ==
    \A r \in Requests :
        (/\ must_cancel /\ worker_pc = "forward" /\ queued_request = r
         /\ caller[r] = "waiting")
            ~> (CallerDone(r) /\ response_future[r] # "pending")

\* ------------------------------------------------- broker: faults in the loop
\* The worker's resumption from a forward hits a handle that is no longer
\* pending (its caller gave up): lines 118 and 123 raise.
FaultInLoop ==
    /\ worker_task = "pending" /\ worker_pc = "forward" /\ ~must_cancel
    /\ fwd # "none" /\ fwd' = "none"
    /\ response_future[queued_request] # "pending"

\* The worker comes back from the pause of line 135.
PauseEnds ==
    worker_pc = "sleep" /\ worker_pc' # "sleep" /\ worker_task' = "pending"

\* C25: an unexpected fault inside the worker loop (fulfilling the handle of a
\* request whose caller gave up) does not end the worker: the task stays
\* alive, pauses, and after the pause takes the next queued request and
\* forwards it, or waits for one.
C25_FaultKeepsWorker ==
    [][/\ FaultInLoop =>
            /\ worker_task' = "pending" /\ worker_pc' = "sleep"
            /\ stats'.worker_running
            /\ request_queue' = request_queue
       /\ PauseEnds =>
            IF request_queue # <<>>
            THEN /\ worker_pc' = "forward"
                 /\ queued_request' = Head(request_queue)
                 /\ queued_request' \in executor'
                 /\ request_queue' = Tail(request_queue)
            ELSE worker_pc' = "get"]_vars

\* One worker hit the fault on a request and later served another one.
C25_Witness ==
    /\ tasks_created = 1 /\ worker_task = "pending"
    /\ \E r, q \in Requests :
           /\ r < q /\ r \in dequeued
           /\ response_future[r] = "cancelled"
           /\ response_future[q] = "result" /\ caller[q] = "returned"

\* -------------------------------------------- broker: enqueue during a forward
\* The enqueue_request call that can be made now is accepted in one step and
\* leaves the forward in progress alone.
AcceptedAtOnce ==
    /\ EnqueueRequest
    /\ request_queue' = Append(request_queue, n_calls + 1)
    /\ stats'.total_requests = stats.total_requests + 1
    /\ caller'[n_calls + 1] = "waiting"
    /\ UNCHANGED <<queued_request, executor, worker_pc>>

\* C26: while a request is in flight (the worker awaits the backend's answer
\* to it), an enqueue_request call made with the queue below capacity is not
\* delayed: it is accepted at once, its request appended to the queue and
\* counted in total_requests.
C26_EnqueueDuringForward ==
    (/\ worker_task = "pending" /\ worker_pc = "forward"
     /\ queued_request \in executor
     /\ Len(request_queue) < MAX_QUEUE_SIZE
     /\ n_calls < NumRequests)
        => ENABLED AcceptedAtOnce

\* A request is in flight and the queue was filled up behind it.
C26_Witness ==
    /\ worker_task = "pending" /\ worker_pc = "forward"
    /\ queued_request \in executor
    /\ Len(request_queue) = MAX_QUEUE_SIZE
    /\ stats.total_requests = MAX_QUEUE_SIZE + 1
    /\ dequeued = {queued_request}

\* ------------------------------------------------- broker: a serving worker
\* The broker as the service runs it between start-up and shutdown
\* (lines 275-281): start_worker is called, stop_worker is not.
ServeNext ==
    \/ StartWorker
    \/ WorkerStart
    \/ WorkerGet
    \/ \E r \in Requests, o \in Outcomes : ThreadDone(r, o)
    \/ WorkerComplete
    \/ WorkerWake
    \/ EnqueueRequest
    \/ \E r \in Requests : CallerCancel(r)
    \/ CallerResume

SpecServing ==
    Init /\ [][ServeNext]_vars /\ WF_vars(StartWorker) /\ BrokerFairness

\* C27: with the worker started and never stopped, and every forwarded call
\* returning or timing out, every accepted request is eventually completed
\* and its caller eventually resumes with the result or the failure (a
\* caller that gave up is left aside).
C27_AcceptedEventuallyResumes ==
    \A r \in Requests :
        (response_future[r] = "pending")
            ~> (response_future[r] # "pending" /\ CallerDone(r))

\* Every request was accepted and its caller has resumed, one of them after
\* the worker paused on a request whose caller gave up.
C27_Witness ==
    /\ n_stops = 0 /\ tasks_created = 1 /\ worker_pc = "get"
    /\ \A r \in Requests : CallerDone(r) /\ r \in dequeued
    /\ \E r, q \in Requests :
           r < q /\ caller[r] = "abandoned" /\ caller[q] \in {"returned", "raised"}

\* ------------------------------------------------------ broker: the counters
\* Requests in flight: the one the worker holds, if any.
InFlight == IF queued_request # 0 THEN 1 ELSE 0

\* C28: in every reachable state total_requests equals successful_requests
\* plus failed_requests plus the requests waiting in the queue plus the one
\* in flight: every accepted request is counted once, a rejected one nowhere,
\* and every finished request added one to succeeded or to failed.
C28_CountersBalance ==
    stats.total_requests =
        stats.successful_requests + stats.failed_requests
            + Len(request_queue) + InFlight

\* --------------------------------------------------- broker: worker_running
\* C29: worker_running tracks the worker task: it is true whenever the task
\* is alive and consuming the queue, and false once stop_worker has returned,
\* at whichever suspension point (the wait for a request, a forward in
\* flight, the pause after a fault) the worker was cancelled.
C29_RunningTracksTask ==
    /\ (worker_task = "pending" /\ worker_pc \in {"get", "forward", "sleep"})
           => stats.worker_running
    /\ (n_stops > 0 /\ stop_pc = "idle" /\ worker_task # "pending")
           => ~stats.worker_running

\* ------------------------------------------------ session: status at the end
\* The statuses a batch can end in.
Final == {"Completed", "Failed", "Stopped"}

\* C30: whenever a session's batch worker has terminated, the session's
\* status is Completed, Failed or Stopped: no exit path of the worker leaves
\* Running or Idle behind, and the status of an ended batch leaves those
\* three only through a later start_automation call.
C30_EndsInFinalStatus ==
    [][\A s \in Sessions :
         /\ Terminates(s) => status'[s] \in Final
         /\ (thread[s] = "dead" /\ status[s] \in Final
                 /\ status'[s] \notin Final) => StartCalled(s)]_vars

\* A batch of no runs ended: the loop body never ran and line 303 set the
\* status.
C30_Witness ==
    \E s \in Sessions :
        /\ thread[s] = "dead" /\ spawned[s] = 1 /\ stop_ret[s] = "none"
        /\ total_runs[s] = 0 /\ current_run[s] = 0
        /\ status[s] = "Completed"

====
